---------------------------- MODULE Spec2Model ----------------------------
(***************************************************************************)
(* Model of src/countdown-generator/index.js: the countdown GIF generator. *)
(*                                                                         *)
(* One call of init() is a session.  init() runs synchronously from its    *)
(* first line to the return of encode(); it is modelled as a chain of      *)
(* steps (pc) that no I/O callback can interrupt, as on the JavaScript     *)
(* event loop.  The write stream the encoder is piped into works           *)
(* afterwards, one callback at a time, while pc = "idle"; a later init()   *)
(* can start between two such callbacks.                                   *)
(*                                                                         *)
(* Instants and durations are integers of milliseconds.  A JavaScript      *)
(* number that is NaN is a record with valid = FALSE.  Text drawn on the   *)
(* canvas is a sequence of characters, so that the length test of the      *)
(* zero padding is computed as the code computes it.                       *)
(***************************************************************************)
EXTENDS Integers, Sequences, FiniteSets, TLC

VARIABLES
    this,      \* the module object: the fields init() assigns (lines 25-39)
    pc,        \* position of the synchronous call in progress, or "idle"
    sess,      \* one record per init() call: locals, closures, encoder, sink
    fields,    \* days/hours/minutes/seconds of the latest loop iteration
    tmpDir,    \* does <cwd>/tmp/ exist
    files      \* tmp/<name>.gif: name -> sequence of chunks

vars == <<this, pc, sess, fields, tmpDir, files>>

----------------------------------------------------------------------------
(* Bounds of the model *)

\* most init() calls in one behaviour of SpecConc
NumSessions == 2
\* SpecFields draws durations of 0..MaxDays whole days plus a remainder
MaxDays == 1

(* Program constants *)
WidthDefault == 640
HeightDefault == 80
FramesDefault == 30
WidthMin == 150
WidthMax == 1000
HeightMin == 150
HeightMax == 500
FramesMin == 1
FramesMax == 90

MsPerSecond == 1000
MsPerMinute == 60 * MsPerSecond
MsPerHour == 60 * MsPerMinute
MsPerDay == 24 * MsPerHour

DefaultPassedText == "Date has passed!"

----------------------------------------------------------------------------
(* Pure helpers *)

\* an optional argument is {} (undefined: the default applies) or {v}
Arg(x, default) == IF x = {} THEN default ELSE CHOOSE v \in x : TRUE

Max(a, b) == IF a >= b THEN a ELSE b
Min(a, b) == IF a <= b THEN a ELSE b

\* a plausible slip: the floor is never applied
clampNoFloor(number, min, max) == Min(number, max)

\* clamp: Math.max(min, Math.min(number, max))
clamp(number, min, max) == Max(min, Min(number, max))

\* Math.floor(a / b) for b > 0 (\div rounds toward minus infinity, as floor)
Floor(a, b) == a \div b

DigitChars == <<"0", "1", "2", "3", "4", "5", "6", "7", "8", "9">>

RECURSIVE Digits(_)
Digits(n) ==
    IF n < 10 THEN <<DigitChars[n + 1]>>
    ELSE Digits(n \div 10) \o <<DigitChars[(n % 10) + 1]>>

\* Number.prototype.toString of an integer
toString(n) == IF n < 0 THEN <<"-">> \o Digits(0 - n) ELSE Digits(n)

NaNText == <<"N", "a", "N">>

\* (x.toString().length == 1) ? '0' + x : x, then drawn as text
pad(n) == IF Len(toString(n)) = 1 THEN <<"0">> \o toString(n) ELSE toString(n)

\* the zone the target string is read in
ZoneOf(timezone) ==
    IF timezone = "nl" THEN "Europe/Amsterdam"
    ELSE IF timezone = "ru" THEN "Europe/Moscow"
    ELSE IF timezone = "uk" THEN "Europe/London"
    ELSE "Europe/London"

\* standard-time offset from UTC of a zone, in hours
UtcOffsetHours(zone) ==
    CASE zone = "Europe/London" -> 0
      [] zone = "Europe/Amsterdam" -> 1
      [] zone = "Europe/Moscow" -> 3

\* momentTimezone.tz(timeString, zone): the instant of a wall-clock time read
\* in a zone; an unparseable string gives an invalid moment and raises nothing
tz(timeString, zone) ==
    IF timeString.parses
    THEN [valid |-> TRUE, ms |-> timeString.wall - UtcOffsetHours(zone) * MsPerHour]
    ELSE [valid |-> FALSE, ms |-> 0]

\* target.diff(current): milliseconds, NaN when the target is invalid
diff(target, current) ==
    IF target.valid THEN [valid |-> TRUE, ms |-> target.ms - current]
    ELSE [valid |-> FALSE, ms |-> 0]

\* a plausible slip: an exact hit of the target counts as remaining
timeResultStrict(difference, datepassedtext) ==
    IF difference.valid /\ difference.ms < 0
    THEN [type |-> "string",
          text |-> IF datepassedtext # "" THEN datepassedtext ELSE DefaultPassedText,
          valid |-> TRUE, ms |-> 0]
    ELSE [type |-> "object", text |-> "",
          valid |-> difference.valid, ms |-> difference.ms]

\* lines 107-113: NaN <= 0 is false, so an invalid difference is a duration
timeResultOf(difference, datepassedtext) ==
    IF difference.valid /\ difference.ms <= 0
    THEN [type |-> "string",
          text |-> IF datepassedtext # "" THEN datepassedtext ELSE DefaultPassedText,
          valid |-> TRUE, ms |-> 0]
    ELSE [type |-> "object", text |-> "",
          valid |-> difference.valid, ms |-> difference.ms]

\* a plausible slip: the minutes are not taken out of the seconds
decomposeNoMinutes(ms) ==
    LET days == Floor(ms, MsPerDay)
        hours == Floor(ms - days * 24 * MsPerHour, MsPerHour)
        minutes == Floor(ms, MsPerMinute) - (days * 24 * 60) - (hours * 60)
        seconds == Floor(ms, MsPerSecond) - (days * 24 * 60 * 60) - (hours * 60 * 60)
    IN  [valid |-> TRUE, ms |-> ms, days |-> days, hours |-> hours,
         minutes |-> minutes, seconds |-> seconds]

\* lines 181-184 on a valid duration of ms milliseconds.  asDays() .. asSeconds()
\* are ms / 864e5 .. ms / 1000 in floating point; a quotient that is not an
\* integer is further from one than the rounding error, so the floors are exact.
decompose(ms) ==
    LET days == Floor(ms, MsPerDay)
        hours == Floor(ms - days * 24 * MsPerHour, MsPerHour)
        minutes == Floor(ms, MsPerMinute) - (days * 24 * 60) - (hours * 60)
        seconds == Floor(ms, MsPerSecond) - (days * 24 * 60 * 60)
                       - (hours * 60 * 60) - (minutes * 60)
    IN  [valid |-> TRUE, ms |-> ms, days |-> days, hours |-> hours,
         minutes |-> minutes, seconds |-> seconds]

\* the four numbers of a duration: all NaN when the duration is invalid
fieldsOf(timeResult) ==
    IF timeResult.valid THEN decompose(timeResult.ms)
    ELSE [valid |-> FALSE, ms |-> 0, days |-> 0, hours |-> 0,
          minutes |-> 0, seconds |-> 0]

NoFields == [valid |-> FALSE, ms |-> 0, days |-> 0, hours |-> 0,
             minutes |-> 0, seconds |-> 0]

\* lines 188-238: what the countdown frame shows
countdownFrame(f) ==
    IF f.valid
    THEN [kind |-> "countdown", days |-> pad(f.days), hours |-> pad(f.hours),
          minutes |-> pad(f.minutes), seconds |-> pad(f.seconds), message |-> ""]
    ELSE [kind |-> "countdown", days |-> NaNText, hours |-> NaNText,
          minutes |-> NaNText, seconds |-> NaNText, message |-> ""]

\* lines 253-259: what the message frame shows
messageFrame(text) ==
    [kind |-> "message", days |-> <<>>, hours |-> <<>>, minutes |-> <<>>,
     seconds |-> <<>>, message |-> text]

NoFrame ==
    [kind |-> "none", days |-> <<>>, hours |-> <<>>, minutes |-> <<>>,
     seconds |-> <<>>, message |-> ""]

\* timeResult.subtract(1, 'seconds'): exact on the milliseconds, NaN stays NaN
subtractSecond(timeResult) ==
    IF timeResult.valid THEN [timeResult EXCEPT !.ms = @ - MsPerSecond]
    ELSE timeResult

\* encoder calls; each one emits one chunk on the encoder's read stream
CallStart == [op |-> "start", frame |-> NoFrame]
CallAddFrame(frame) == [op |-> "addFrame", frame |-> frame]
CallFinish == [op |-> "finish", frame |-> NoFrame]

----------------------------------------------------------------------------
(* State *)

Running == Len(sess)            \* the session of the synchronous call in progress

NoNumber == [valid |-> FALSE, ms |-> 0]
NoResult == [type |-> "undefined", text |-> "", valid |-> FALSE, ms |-> 0]

Undefined ==
    [width |-> 0, height |-> 0, frames |-> 0, name |-> "", timezone |-> "",
     datepassedtext |-> "", encoder |-> 0]

Init ==
    /\ this = Undefined
    /\ pc = "idle"
    /\ sess = <<>>
    /\ fields = NoFields
    /\ tmpDir \in BOOLEAN
    /\ files = <<>>

----------------------------------------------------------------------------
(* The synchronous call: init -> time -> encode *)

\* lines 23-41: the arguments with their defaults, the clamps, a new encoder
init(time, width, height, name, frames, cb, timezone, datepassedtext) ==
    /\ pc = "idle"
    /\ this' = [width |-> clamp(Arg(width, WidthDefault), WidthMin, WidthMax),
                height |-> clamp(Arg(height, HeightDefault), HeightMin, HeightMax),
                frames |-> clamp(Arg(frames, FramesDefault), FramesMin, FramesMax),
                name |-> Arg(name, "default"),
                timezone |-> Arg(timezone, "uk"),
                datepassedtext |-> Arg(datepassedtext, DefaultPassedText),
                encoder |-> Len(sess) + 1]
    /\ sess' = Append(sess,
                [time |-> time, width |-> width, height |-> height,
                 frames |-> frames, cb |-> cb,
                 difference |-> NoNumber, timeResult |-> NoResult, i |-> 0,
                 calls |-> <<>>, thrown |-> FALSE,
                 sink |-> "none", filePath |-> "", pos |-> 0,
                 cbCalls |-> 0, cbThrew |-> FALSE])
    /\ pc' = "time"
    /\ UNCHANGED <<fields, tmpDir, files>>

\* lines 83-114, called at line 44
time(current) ==
    /\ pc = "time"
    /\ LET target == tz(sess[Running].time, ZoneOf(this.timezone))
           difference == diff(target, current)
       IN  sess' = [sess EXCEPT ![Running].difference = difference,
                                ![Running].timeResult =
                                    timeResultOf(difference, this.datepassedtext)]
    /\ pc' = "encode"
    /\ UNCHANGED <<this, fields, tmpDir, files>>

\* lines 139-159: the tmp directory, the read stream piped into a write
\* stream on tmp/<name>.gif, the 'finish' listener.  mkdirSync can throw.
encode_pipe ==
    /\ pc = "encode"
    /\ \/ /\ tmpDir' = TRUE
          /\ sess' = [sess EXCEPT ![Running].sink = "pending",
                                  ![Running].filePath = this.name]
          /\ pc' = "start"
       \/ /\ ~tmpDir
          /\ tmpDir' = tmpDir
          /\ sess' = [sess EXCEPT ![Running].thrown = TRUE]
          /\ pc' = "idle"
    /\ UNCHANGED <<this, fields, files>>

\* lines 172-178: start(), the settings, the branch on typeof timeResult
encode_start ==
    /\ pc = "start"
    /\ sess' = [sess EXCEPT ![Running].calls = Append(@, CallStart),
                            ![Running].i = 0]
    /\ pc' = IF sess[Running].timeResult.type = "object" THEN "loop" ELSE "message"
    /\ UNCHANGED <<this, fields, tmpDir, files>>

\* a plausible slip: the second is removed before the frame is drawn
encode_frame_subtract_first ==
    /\ pc = "loop"
    /\ sess[Running].i < this.frames
    /\ fields' = fieldsOf(subtractSecond(sess[Running].timeResult))
    /\ sess' = [sess EXCEPT
                  ![Running].calls = Append(@, CallAddFrame(countdownFrame(fields'))),
                  ![Running].timeResult = subtractSecond(@),
                  ![Running].i = @ + 1]
    /\ UNCHANGED <<this, pc, tmpDir, files>>

\* lines 179-249: one iteration of the frame loop
encode_frame ==
    /\ pc = "loop"
    /\ sess[Running].i < this.frames
    /\ fields' = fieldsOf(sess[Running].timeResult)
    /\ sess' = [sess EXCEPT
                  ![Running].calls = Append(@, CallAddFrame(countdownFrame(fields'))),
                  ![Running].timeResult = subtractSecond(@),
                  ![Running].i = @ + 1]
    /\ UNCHANGED <<this, pc, tmpDir, files>>

\* lines 250-261: the date has passed, one frame with the message
encode_message ==
    /\ pc = "message"
    /\ sess' = [sess EXCEPT
                  ![Running].calls =
                      Append(@, CallAddFrame(messageFrame(sess[Running].timeResult.text)))]
    /\ pc' = "finish"
    /\ UNCHANGED <<this, fields, tmpDir, files>>

\* a plausible slip: finish() inside the loop, after the first frame
encode_finish_in_loop ==
    /\ \/ pc = "finish"
       \/ pc = "loop" /\ sess[Running].i >= 1
    /\ sess' = [sess EXCEPT ![Running].calls = Append(@, CallFinish)]
    /\ pc' = IF pc = "loop" /\ sess[Running].i < this.frames THEN "loop" ELSE "idle"
    /\ UNCHANGED <<this, fields, tmpDir, files>>

\* line 264, reached from either branch; init() returns
encode_finish ==
    /\ \/ pc = "finish"
       \/ pc = "loop" /\ ~(sess[Running].i < this.frames)
    /\ sess' = [sess EXCEPT ![Running].calls = Append(@, CallFinish)]
    /\ pc' = "idle"
    /\ UNCHANGED <<this, fields, tmpDir, files>>

----------------------------------------------------------------------------
(* The write stream, one callback at a time between synchronous calls.     *)
(* A file is a sequence of chunks <<session, index>>; each write stream    *)
(* has its own descriptor and offset.                                      *)

Hole == <<0, 0>>

RECURSIVE Holes(_)
Holes(n) == IF n <= 0 THEN <<>> ELSE <<Hole>> \o Holes(n - 1)

\* write one chunk at an offset of a file, zero-filling a gap
WriteAt(file, offset, chunk) ==
    IF offset < Len(file) THEN [file EXCEPT ![offset + 1] = chunk]
    ELSE file \o Holes(offset - Len(file)) \o <<chunk>>

FileOf(name) == IF name \in DOMAIN files THEN files[name] ELSE <<>>

\* the read stream has ended: finish() pushed the trailer and the end
Ended(s) ==
    /\ sess[s].calls # <<>>
    /\ sess[s].calls[Len(sess[s].calls)].op = "finish"

\* fs.createWriteStream opens the file with flag 'w': created or truncated
SinkOpen(s) ==
    /\ pc = "idle"
    /\ sess[s].sink = "pending"
    /\ sess' = [sess EXCEPT ![s].sink = "open"]
    /\ files' = [n \in DOMAIN files \cup {sess[s].filePath} |->
                    IF n = sess[s].filePath THEN <<>> ELSE files[n]]
    /\ UNCHANGED <<this, pc, fields, tmpDir>>

\* pipe: the next chunk of the read stream is written at the sink's offset
SinkWrite(s) ==
    /\ pc = "idle"
    /\ sess[s].sink = "open"
    /\ sess[s].pos < Len(sess[s].calls)
    /\ files' = [files EXCEPT ![sess[s].filePath] =
                    WriteAt(@, sess[s].pos, <<s, sess[s].pos + 1>>)]
    /\ sess' = [sess EXCEPT ![s].pos = @ + 1]
    /\ UNCHANGED <<this, pc, fields, tmpDir>>

\* line 158: typeof cb === 'function' && cb()
onFinish(cb) ==
    IF cb = "function" THEN [calls |-> 1, threw |-> FALSE]
    ELSE [calls |-> 0, threw |-> FALSE]

\* a plausible slip: the listener is on the sink's 'open' event
SinkFinishOnOpen(s) ==
    /\ pc = "idle"
    /\ sess[s].sink = "open"
    /\ sess[s].pos = 0
    /\ sess' = [sess EXCEPT ![s].sink = "finished",
                            ![s].cbCalls = @ + onFinish(sess[s].cb).calls,
                            ![s].cbThrew = onFinish(sess[s].cb).threw]
    /\ UNCHANGED <<this, pc, fields, tmpDir, files>>

\* lines 156-159: the read stream ended and every chunk is written, the sink
\* emits 'finish' and the listener runs
SinkFinish(s) ==
    /\ pc = "idle"
    /\ sess[s].sink = "open"
    /\ Ended(s)
    /\ sess[s].pos = Len(sess[s].calls)
    /\ sess' = [sess EXCEPT ![s].sink = "finished",
                            ![s].cbCalls = @ + onFinish(sess[s].cb).calls,
                            ![s].cbThrew = onFinish(sess[s].cb).threw]
    /\ UNCHANGED <<this, pc, fields, tmpDir, files>>

\* the file cannot be created or written: the sink emits 'error'; encode()
\* registers no listener for it
SinkError(s) ==
    /\ pc = "idle"
    /\ sess[s].sink \in {"pending", "open"}
    /\ sess' = [sess EXCEPT ![s].sink = "error"]
    /\ UNCHANGED <<this, pc, fields, tmpDir, files>>

----------------------------------------------------------------------------
(* Inputs and specifications *)

\* the current instant read at lines 87-97
Clock == {0}

Unparseable == [parses |-> FALSE, wall |-> 0]
At(wall) == [parses |-> TRUE, wall |-> wall]

\* target strings: wall-clock times around the current instant
Times ==
    {Unparseable} \cup
    {At(w) : w \in {0 - MsPerSecond, 0, 500, 2 * MsPerSecond, MsPerHour,
                    3 * MsPerHour + 2500, MsPerDay + 1500,
                    10 * MsPerDay + MsPerMinute + 1}}

Widths == {{}, {WidthMin - 100}, {WidthMax + 4000}}
Heights == {{}, {300}, {HeightMax + 4500}}
FrameCounts == {{}, {0}, {2}, {200}}
Callbacks == {"function", "undefined"}
Zones == {{}, {"nl"}, {"ru"}, {"xx"}}
PassedTexts == {{}, {"Gone!"}}

Step ==
    \/ \E c \in Clock : time(c)
    \/ encode_pipe
    \/ encode_start
    \/ encode_frame
    \/ encode_message
    \/ encode_finish
    \/ \E s \in 1..Len(sess) : SinkOpen(s)
    \/ \E s \in 1..Len(sess) : SinkWrite(s)
    \/ \E s \in 1..Len(sess) : SinkFinish(s)
    \/ \E s \in 1..Len(sess) : SinkError(s)

\* a call of init() with arguments drawn from the given sets
InitCalls(T, W, H, N, F, CB, Z, P) ==
    \E t \in T, w \in W, h \in H, n \in N, f \in F, cb \in CB, z \in Z, p \in P :
        init(t, w, h, n, f, cb, z, p)

\* one session, every kind of argument
Next ==
    \/ /\ Len(sess) < 1
       /\ InitCalls(Times, Widths, Heights, {{}}, FrameCounts, Callbacks,
                    Zones, PassedTexts)
    \/ Step

Spec == Init /\ [][Next]_vars

\* one session, durations on and around every unit boundary
FieldTimes ==
    {At(d * MsPerDay + h * MsPerHour + m * MsPerMinute + sec * MsPerSecond + r) :
        d \in 0..MaxDays, h \in {0, 1, 23}, m \in {0, 1, 59},
        sec \in {0, 1, 59}, r \in {0, 1, 999}}

NextFields ==
    \/ /\ Len(sess) < 1
       /\ InitCalls(FieldTimes, {{}}, {{}}, {{}}, {{0}, {3}}, {"function"},
                    {{}}, {{""}})
    \/ Step

SpecFields == Init /\ [][NextFields]_vars

\* several sessions on the module object, a later one started before the
\* sinks of the earlier ones have finished
NextConc ==
    \/ /\ Len(sess) < NumSessions
       /\ InitCalls({At(0 - MsPerSecond), At(2500)}, {{}}, {{}}, {{}, {"a"}},
                    {{2}}, {"function"}, {{}}, {{}})
    \/ Step

SpecConc == Init /\ [][NextConc]_vars

----------------------------------------------------------------------------
(* Vocabulary of the properties *)

Sessions == 1..Len(sess)

\* init() of session s has returned from encode()
Returned(s) == (s < Len(sess) \/ pc = "idle") /\ ~sess[s].thrown

\* time() has run in session s
Timed(s) == sess[s].timeResult.type # "undefined"

AddFrames(s) == SelectSeq(sess[s].calls, LAMBDA c : c.op = "addFrame")

\* the frame count the arguments of session s ask for, after clamping
ConfiguredFrames(s) ==
    LET f == IF sess[s].frames = {} THEN 30 ELSE CHOOSE v \in sess[s].frames : TRUE
    IN  IF f < 1 THEN 1 ELSE IF f > 90 THEN 90 ELSE f

\* the text of a duration of t milliseconds, unit by unit
Shown(t) ==
    [kind |-> "countdown",
     days |-> pad(t \div 86400000),
     hours |-> pad((t % 86400000) \div 3600000),
     minutes |-> pad((t % 3600000) \div 60000),
     seconds |-> pad((t % 60000) \div 1000),
     message |-> ""]

\* an effective value against the argument given (or its default) and the
\* range lo..hi
InRange(given, default, effective, lo, hi) ==
    LET v == IF given = {} THEN default ELSE CHOOSE x \in given : TRUE
    IN  /\ effective \in lo..hi
        /\ (v \in lo..hi) => effective = v
        /\ (v < lo) => effective = lo
        /\ (v > hi) => effective = hi

\* chunk k of the file of session s holds what the encoder of s emitted k-th
OwnChunk(s, k) ==
    LET file == FileOf(sess[s].filePath) IN
    /\ k <= Len(file)
    /\ file[k] # Hole
    /\ sess[file[k][1]].calls[file[k][2]] = sess[s].calls[k]

----------------------------------------------------------------------------
(* Claims *)

\* C1: with a remaining duration D > 0, the i-th frame added (i from 0) shows
\* D minus i seconds, the first one D itself, and when encode() returns the
\* encoder has got start(), exactly the clamped number of frames, finish().
C1_FramesShowDecrementedDuration ==
    \A s \in Sessions :
        (sess[s].difference.valid /\ sess[s].difference.ms > 0) =>
            LET added == AddFrames(s) IN
            /\ \A k \in 1..Len(added) :
                   added[k].frame = Shown(sess[s].difference.ms - (k - 1) * 1000)
            /\ Returned(s) =>
                   /\ Len(added) = ConfiguredFrames(s)
                   /\ Len(sess[s].calls) = ConfiguredFrames(s) + 2
                   /\ sess[s].calls[Len(sess[s].calls)].op = "finish"

\* C1 witness: a returned session of 90 frames on a remaining duration
C1_Witness ==
    \E s \in Sessions :
        /\ Returned(s)
        /\ sess[s].difference.valid /\ sess[s].difference.ms = 86400000 + 1500
        /\ Len(AddFrames(s)) = 90
        /\ AddFrames(s)[1].frame.days = <<"0", "1">>
        /\ AddFrames(s)[3].frame.hours = <<"2", "3">>

\* C2: when the target is not after the current instant (difference <= 0),
\* the loop is never entered and encode() returns after start(), one
\* addFrame of the message frame, finish(), whatever the frame count.
C2_PassedOneMessageFrame ==
    \A s \in Sessions :
        (sess[s].difference.valid /\ sess[s].difference.ms <= 0) =>
            /\ (s = Running) => pc # "loop"
            /\ \A k \in 1..Len(AddFrames(s)) : AddFrames(s)[k].frame.kind = "message"
            /\ Len(AddFrames(s)) <= 1
            /\ Returned(s) =>
                   /\ Len(sess[s].calls) = 3
                   /\ sess[s].calls[1].op = "start"
                   /\ sess[s].calls[2].op = "addFrame"
                   /\ sess[s].calls[2].frame.kind = "message"
                   /\ sess[s].calls[3].op = "finish"

\* C2 witness: a returned session of 90 configured frames whose target is
\* exactly the current instant
C2_Witness ==
    \E s \in Sessions :
        /\ Returned(s)
        /\ sess[s].difference.valid /\ sess[s].difference.ms = 0
        /\ ConfiguredFrames(s) = 90
        /\ Len(AddFrames(s)) = 1

\* C3: the fields the loop computes from a duration D >= 0 add up to
\* floor(D / 1000) seconds, hours in 0..23, minutes and seconds in 0..59.
C3_FieldsDecomposeDuration ==
    (fields.valid /\ fields.ms >= 0) =>
        /\ fields.days * 86400 + fields.hours * 3600 + fields.minutes * 60
               + fields.seconds = fields.ms \div 1000
        /\ fields.days >= 0
        /\ fields.hours \in 0..23
        /\ fields.minutes \in 0..59
        /\ fields.seconds \in 0..59

\* C3 witness: the loop has decomposed exactly one day
C3_Witness ==
    /\ fields.valid
    /\ fields.ms = 86400000
    /\ fields.days = 1
    /\ fields.hours = 0 /\ fields.minutes = 0 /\ fields.seconds = 0

\* C4: no countdown frame is rendered from a duration that is zero or
\* negative, and the fields of every countdown frame are non-negative.
C4_NoFrameFromPassedDuration ==
    fields.valid =>
        /\ fields.ms > 0
        /\ fields.days >= 0 /\ fields.hours >= 0
        /\ fields.minutes >= 0 /\ fields.seconds >= 0

\* C5: the encoder gets start() first and once, then addFrame calls, then
\* finish() last and once; when encode() returns both have been called.
C5_EncoderSequence ==
    \A s \in Sessions :
        LET calls == sess[s].calls IN
        /\ \A k \in 1..Len(calls) :
               /\ (calls[k].op = "start") <=> (k = 1)
               /\ (calls[k].op = "finish") => (k = Len(calls))
        /\ Returned(s) =>
               /\ Len(calls) >= 3
               /\ calls[1].op = "start"
               /\ calls[Len(calls)].op = "finish"
        /\ (s # Running \/ pc = "idle") => (calls = <<>> \/ Ended(s))

\* C5 witness: returned sessions of both branches are reached; this one is
\* the remaining branch with two frames
C5_Witness ==
    \E s \in Sessions :
        /\ Returned(s)
        /\ sess[s].timeResult.type = "object"
        /\ Len(sess[s].calls) = 4

\* C6: the callback runs at most once, only when finish() has been called,
\* every chunk is written and the sink has finished; it runs then if it is a
\* function, and otherwise nothing runs and nothing is raised.
C6_CallbackAfterSinkFinish ==
    \A s \in Sessions :
        /\ sess[s].cbCalls <= 1
        /\ sess[s].cbCalls = 1 =>
               /\ Returned(s)
               /\ Ended(s)
               /\ sess[s].sink = "finished"
               /\ sess[s].pos = Len(sess[s].calls)
        /\ sess[s].sink = "finished" =>
               /\ Ended(s)
               /\ sess[s].pos = Len(sess[s].calls)
               /\ sess[s].cbCalls = IF sess[s].cb = "function" THEN 1 ELSE 0
        /\ sess[s].cb # "function" => (sess[s].cbCalls = 0 /\ ~sess[s].cbThrew)

\* C6 witness: the callback has run after a stream of 90 frames was written
C6_Witness ==
    \E s \in Sessions :
        /\ sess[s].cbCalls = 1
        /\ sess[s].pos = 92
        /\ Len(FileOf(sess[s].filePath)) = 92

\* C7: after init the effective width is in 150..1000, the height in
\* 150..500 and the frames in 1..90: an input in range is kept, one below
\* the floor becomes the floor, one above the ceiling the ceiling; the
\* default height 80 becomes 150.
C7_ClampedConfig ==
    Len(sess) > 0 =>
        LET a == sess[Len(sess)] IN
        /\ InRange(a.width, 640, this.width, 150, 1000)
        /\ InRange(a.height, 80, this.height, 150, 500)
        /\ InRange(a.frames, 30, this.frames, 1, 90)
        /\ a.width = {50} => this.width = 150
        /\ a.width = {5000} => this.width = 1000
        /\ a.frames = {0} => this.frames = 1
        /\ a.frames = {200} => this.frames = 90
        /\ a.height = {} => this.height = 150

\* C7 witness: width 50, frames 200 and the default height have been clamped
\* and the session has gone on
C7_Witness ==
    /\ Len(sess) > 0
    /\ sess[Len(sess)].width = {50} /\ this.width = 150
    /\ sess[Len(sess)].frames = {200} /\ this.frames = 90
    /\ sess[Len(sess)].height = {} /\ this.height = 150
    /\ pc = "idle" /\ ~sess[Len(sess)].thrown

\* C8: when the target string cannot be parsed, the session fails and no
\* frame is added to the encoder.
C8_ParseErrorNoFrames ==
    \A s \in Sessions :
        (Timed(s) /\ ~sess[s].time.parses) =>
            /\ AddFrames(s) = <<>>
            /\ (s = Running) => pc \notin {"loop", "message"}

\* C9: when the sink fails, the frame loop is short-circuited: a sink that
\* failed before writing anything belongs to no encoder that has run the
\* loop to the configured frame count and finished.
C9_SinkErrorShortCircuits ==
    \A s \in Sessions :
        (sess[s].sink = "error" /\ sess[s].pos = 0
            /\ sess[s].timeResult.type = "object") =>
            ~(Len(AddFrames(s)) = ConfiguredFrames(s) /\ Ended(s))

\* C10: sessions are isolated: what a session's sink has written so far is in
\* its file, chunk by chunk its own stream, whatever the names of the other
\* sessions; a callback has run only for a session whose own sink finished.
C10_SessionsIsolated ==
    \A s \in Sessions :
        /\ sess[s].sink \in {"open", "finished"} =>
               /\ \A k \in 1..sess[s].pos : OwnChunk(s, k)
               /\ sess[s].sink = "finished" =>
                      Len(FileOf(sess[s].filePath)) = Len(sess[s].calls)
        /\ sess[s].cbCalls = 1 => sess[s].sink = "finished"

=============================================================================
